---- MODULE Spec2Model ----
(***************************************************************************)
(* Model of src/index.ts: the MCP tool server that relays "ask" and        *)
(* "get_conversations" requests to the ChatGPT desktop app through         *)
(* AppleScript, with a process-wide rate limiter (lastRequestTime).        *)
(*                                                                         *)
(* Times are milliseconds as returned by Date.now().  Texts are TLA+       *)
(* strings; JavaScript values are tagged records (see Str, Num, Undef).    *)
(* Every `await` of the source is a suspension point: each handler         *)
(* invocation is a process whose pc names the await it is parked on.       *)
(***************************************************************************)
EXTENDS Integers, Sequences, FiniteSets, TLC

(***************************************************************************)
(* Bounds of the model.                                                    *)
(***************************************************************************)
\* total number of tool invocations in one run
MaxCalls == 2
\* Date.now() when the process starts (any instant later than one interval)
StartTime == 300000
\* the free-running clock stops being advanced by Tick beyond this instant
MaxTime == 420000
\* longest prompt of the asks that exercise the keystroke command
MaxPromptLen == 3

\* steps by which the clock advances between events
TickSteps == {30000}

\* handler invocations that may be in flight at once
Procs == {1, 2}

(***************************************************************************)
(* State.                                                                  *)
(***************************************************************************)
VARIABLES
    now,              \* Date.now()
    lastRequestTime,  \* module-level `let lastRequestTime = 0`
    pc,               \* per invocation: the await it is parked on
    req,              \* per invocation: the request being handled
    probe,            \* per invocation: outcome of checkChatGPTAccess
    wait,             \* per invocation: what waitForRateLimit read and computed
    steps,            \* per invocation: calls made so far, in order
    sent,             \* the invocation answered last, with its response envelope
                      \* (kept until the next invocation arrives)
    calls,            \* number of invocations received
    answers,          \* number of response envelopes returned
    log               \* the last write of lastRequestTime and the one before

(***************************************************************************)
(* Program constants.                                                      *)
(***************************************************************************)
RATE_LIMIT_DELAY == 120000

(***************************************************************************)
(* JavaScript values of the untyped tool arguments.                        *)
(***************************************************************************)
Undef == [type |-> "undefined", s |-> "", n |-> 0]
Str(x) == [type |-> "string", s |-> x, n |-> 0]
Num(x) == [type |-> "number", s |-> "", n |-> x]

\* ToBoolean: undefined, "" and 0 are falsy
Truthy(v) ==
    CASE v.type = "string" -> v.s # ""
      [] v.type = "number" -> v.n # 0
      [] OTHER -> FALSE

(***************************************************************************)
(* String helpers (String.prototype.split / replace / join, template       *)
(* literals).                                                              *)
(***************************************************************************)
CharAt(s, i) == SubSeq(s, i, i)

\* does s hold sub at position i
MatchAt(s, sub, i) ==
    /\ i >= 1
    /\ i + Len(sub) - 1 <= Len(s)
    /\ SubSeq(s, i, i + Len(sub) - 1) = sub

\* String.prototype.includes
Includes(s, sub) == \E i \in 1..(Len(s) + 1) : MatchAt(s, sub, i)

\* String.prototype.startsWith
StartsWith(s, sub) == MatchAt(s, sub, 1)

\* first index >= from where sep occurs in s, 0 when there is none
RECURSIVE IndexOfFrom(_, _, _)
IndexOfFrom(s, sep, from) ==
    IF from + Len(sep) - 1 > Len(s) THEN 0
    ELSE IF MatchAt(s, sep, from) THEN from
    ELSE IndexOfFrom(s, sep, from + 1)

\* s.split(sep) for a non-empty separator
RECURSIVE Split(_, _)
Split(s, sep) ==
    LET i == IndexOfFrom(s, sep, 1) IN
    IF i = 0 THEN <<s>>
    ELSE <<SubSeq(s, 1, i - 1)>> \o Split(SubSeq(s, i + Len(sep), Len(s)), sep)

\* parts.join(sep)
RECURSIVE Join(_, _)
Join(parts, sep) ==
    IF Len(parts) = 0 THEN ""
    ELSE IF Len(parts) = 1 THEN parts[1]
    ELSE parts[1] \o sep \o Join(Tail(parts), sep)

\* prompt.replace(/"/g, '\\"'): every double quote becomes backslash + quote
RECURSIVE EscapeQuotes(_)
EscapeQuotes(s) ==
    IF Len(s) = 0 THEN ""
    ELSE (IF CharAt(s, 1) = "\"" THEN "\\\"" ELSE CharAt(s, 1))
         \o EscapeQuotes(SubSeq(s, 2, Len(s)))

\* the letters whose case a script's text comparison ignores
UpperChars == "ABCDEFGHIJKLMNOPQRSTUVWXYZ"
LowerChars == "abcdefghijklmnopqrstuvwxyz"

\* each upper-case letter with its lower-case letter
LowerOf ==
    [c \in {CharAt(UpperChars, i) : i \in 1..Len(UpperChars)} |->
        CharAt(LowerChars, IndexOfFrom(UpperChars, c, 1))]

LowerChar(c) == IF c \in DOMAIN LowerOf THEN LowerOf[c] ELSE c

RECURSIVE ToLower(_)
ToLower(s) ==
    IF Len(s) = 0 THEN ""
    ELSE LowerChar(CharAt(s, 1)) \o ToLower(SubSeq(s, 2, Len(s)))

\* the script's `is` / `is not` on text: outside a `considering case` block
\* the comparison ignores case
SameText(a, b) == ToLower(a) = ToLower(b)

\* `keystroke "${prompt.replace(/"/g, '\\"')}"`: the line of the ask script
\* that types the prompt
KeystrokeLine(prompt) == "keystroke \"" \o EscapeQuotes(prompt) \o "\""

\* the character an escape sequence of a script string literal stands for
Unescape(c) ==
    CASE c = "n" -> "\n"
      [] c = "t" -> "\t"
      [] c = "r" -> "\r"
      [] OTHER -> c

\* how the script compiler reads the string literal of a line whose opening
\* quote is just before position i: a backslash takes the next character
\* with it, the first quote not taken by a backslash closes the literal.
\* closed: a closing quote was met; end: its position; text: the characters
\* the literal stands for
RECURSIVE ReadLiteral(_, _, _)
ReadLiteral(line, i, acc) ==
    IF i > Len(line) THEN [closed |-> FALSE, end |-> 0, text |-> acc]
    ELSE IF CharAt(line, i) = "\"" THEN [closed |-> TRUE, end |-> i, text |-> acc]
    ELSE IF CharAt(line, i) = "\\"
         THEN IF i + 1 > Len(line) THEN [closed |-> FALSE, end |-> 0, text |-> acc]
              ELSE ReadLiteral(line, i + 2, acc \o Unescape(CharAt(line, i + 1)))
    ELSE ReadLiteral(line, i + 1, acc \o CharAt(line, i))

\* the string literal that follows the word keystroke
KeystrokeLiteral(line) == ReadLiteral(line, Len("keystroke \"") + 1, "")

(***************************************************************************)
(* Rate limiter: waitForRateLimit.                                         *)
(***************************************************************************)
\* const timeSinceLastRequest = now - lastRequestTime
TimeSinceLastRequest(t, last) == t - last

\* variant: the delay given to the latest dispatched ask stays in effect
DelayToUse_Sticky(customDelay) ==
    IF Truthy(customDelay) THEN customDelay.n
    ELSE IF Truthy(log.delay) THEN log.delay.n
    ELSE RATE_LIMIT_DELAY

\* const delayToUse = customDelay || RATE_LIMIT_DELAY
DelayToUse(customDelay) ==
    IF Truthy(customDelay) THEN customDelay.n ELSE RATE_LIMIT_DELAY

\* variant: the comparison of waitForRateLimit turned around
MustWait_Inverted(t, last, customDelay) ==
    TimeSinceLastRequest(t, last) > DelayToUse(customDelay)

\* does waitForRateLimit reach `await sleep(waitTime)`
MustWait(t, last, customDelay) ==
    TimeSinceLastRequest(t, last) < DelayToUse(customDelay)

\* the argument of sleep(), 0 when sleep is not called
WaitTime(t, last, customDelay) ==
    IF MustWait(t, last, customDelay)
    THEN DelayToUse(customDelay) - TimeSinceLastRequest(t, last)
    ELSE 0

(***************************************************************************)
(* Messages and response envelopes.                                        *)
(***************************************************************************)
FALLBACK_REPLY == "Could not retrieve the response from ChatGPT."
NO_RESPONSE == "No response received from ChatGPT."
LIST_ERROR == "Error retrieving conversations"
LIST_UNABLE == "Unable to retrieve conversations"
NEW_CHAT == "New chat"

ActivateErrorMessage == "Could not activate ChatGPT app. Please start it manually."

\* variant: checkChatGPTAccess called inside the try block of askChatGPT
AccessErrorMessage_Wrapped(msg) ==
    "Failed to get response from ChatGPT: Cannot access ChatGPT app. Please make sure ChatGPT is installed and properly configured. Error: "
    \o msg

AccessErrorMessage(msg) ==
    "Cannot access ChatGPT app. Please make sure ChatGPT is installed and properly configured. Error: "
    \o msg

AskErrorMessage(msg) == "Failed to get response from ChatGPT: " \o msg

\* variant: the catch clause answers without setting isError
ErrorEnvelope_NotFlagged(msg) == [isError |-> FALSE, text |-> "Error: " \o msg]

\* variant: the catch clause answers with the bare message
ErrorEnvelope_NoPrefix(msg) == [isError |-> TRUE, text |-> msg]

\* the handler's catch clause
ErrorEnvelope(msg) == [isError |-> TRUE, text |-> "Error: " \o msg]

\* the handler's fall-through for a tool name other than "chatgpt"
UnknownToolEnvelope(name) == [isError |-> TRUE, text |-> "Unknown tool: " \o name]

\* case "ask": text: response || "No response received from ChatGPT."
AskEnvelope(response) ==
    [isError |-> FALSE, text |-> IF response # "" THEN response ELSE NO_RESPONSE]

\* case "get_conversations"
ListEnvelope(conversations) ==
    [isError |-> FALSE,
     text |-> IF Len(conversations) > 0
              THEN "Found " \o ToString(Len(conversations)) \o " conversation(s):\n\n"
                   \o Join(conversations, "\n")
              ELSE "No conversations found in ChatGPT."]

(***************************************************************************)
(* Tool frontend: isChatGPTArgs and the synchronous head of the handler.   *)
(***************************************************************************)
OPERATIONS == {"ask", "get_conversations"}

isChatGPTArgs(args) ==
    /\ Truthy(args.operation)
    /\ args.operation.type = "string"
    /\ args.operation.s \in OPERATIONS
    /\ ~(args.operation.s = "ask" /\ ~Truthy(args.prompt))
    /\ ~(Truthy(args.prompt) /\ args.prompt.type # "string")
    /\ ~(Truthy(args.conversation_id) /\ args.conversation_id.type # "string")
    /\ ~(args.delay_ms.type # "undefined" /\ args.delay_ms.type # "number")

\* variant: neither isChatGPTArgs nor the handler looks at the prompt
HandlerEntry_NoPromptCheck(r) ==
    IF ~r.hasArgs
    THEN [route |-> "reply", envelope |-> ErrorEnvelope("No arguments provided")]
    ELSE IF r.name = "chatgpt"
    THEN IF ~(r.args.operation.type = "string" /\ r.args.operation.s \in OPERATIONS)
         THEN [route |-> "reply",
               envelope |-> ErrorEnvelope("Invalid arguments for ChatGPT tool")]
         ELSE IF r.args.operation.s = "ask"
         THEN [route |-> "ask", envelope |-> ErrorEnvelope("")]
         ELSE [route |-> "list", envelope |-> ErrorEnvelope("")]
    ELSE [route |-> "reply", envelope |-> UnknownToolEnvelope(r.name)]

\* The handler up to its first await: "ask" / "list" when a dispatch starts,
\* otherwise "reply" with the envelope answered at once.
HandlerEntry(r) ==
    IF ~r.hasArgs
    THEN [route |-> "reply", envelope |-> ErrorEnvelope("No arguments provided")]
    ELSE IF r.name = "chatgpt"
    THEN IF ~isChatGPTArgs(r.args)
         THEN [route |-> "reply",
               envelope |-> ErrorEnvelope("Invalid arguments for ChatGPT tool")]
         ELSE IF r.args.operation.s = "ask"
         THEN IF ~Truthy(r.args.prompt)
              THEN [route |-> "reply",
                    envelope |-> ErrorEnvelope("Prompt is required for ask operation")]
              ELSE [route |-> "ask", envelope |-> ErrorEnvelope("")]
         ELSE [route |-> "list", envelope |-> ErrorEnvelope("")]
    ELSE [route |-> "reply", envelope |-> UnknownToolEnvelope(r.name)]

(***************************************************************************)
(* The scripting bridge.  What the desktop app does is the environment's   *)
(* choice; the scripts' own try blocks are computed here.                  *)
(***************************************************************************)
\* result of one runAppleScript call: its output, or the error it raises
Returned(out) == [raised |-> FALSE, value |-> out]
Raised(msg) == [raised |-> TRUE, value |-> msg]

\* variant: the read of the reply has no on-error branch
RunAskScript_ReadRaises(conversationId, g) ==
    IF ~g.activateOk \/ ~g.keystrokeOk \/ ~g.readOk THEN Raised(g.err)
    ELSE Returned(g.reply)

\* the ask script of askChatGPT: the click is wrapped in try, the read has
\* an on-error branch, activate and keystroke are unguarded
RunAskScript(conversationId, g) ==
    IF ~g.activateOk \/ ~g.keystrokeOk THEN Raised(g.err)
    ELSE Returned(IF g.readOk THEN g.reply ELSE FALLBACK_REPLY)

\* the repeat loop of the list script: the names that `is not "New chat"`
\* lets through, in order
RECURSIVE ConversationNames(_)
ConversationNames(buttons) ==
    IF Len(buttons) = 0 THEN <<>>
    ELSE (IF ~SameText(Head(buttons), NEW_CHAT) THEN <<Head(buttons)>> ELSE <<>>)
         \o ConversationNames(Tail(buttons))

\* the list script of getConversations; a list is printed with ", " between
\* its items
RunListScript(g) ==
    IF ~g.activateOk THEN Raised(g.err)
    ELSE IF ~g.buttonsOk THEN Returned(LIST_UNABLE)
    ELSE Returned(Join(ConversationNames(g.buttons), ", "))

\* variant: askChatGPT swallows the error into the fallback text
AskResult_Swallow(out) ==
    IF out.raised THEN AskEnvelope(FALLBACK_REPLY) ELSE AskEnvelope(out.value)

\* askChatGPT after the dispatch: return result, or rethrow
AskResult(out) ==
    IF out.raised THEN ErrorEnvelope(AskErrorMessage(out.value))
    ELSE AskEnvelope(out.value)

\* getConversations after the script: split the output, or the sentinel
Conversations(out) ==
    IF out.raised THEN <<LIST_ERROR>> ELSE Split(out.value, ", ")

(***************************************************************************)
(* Inputs: tool invocations and what the desktop app does.                 *)
(***************************************************************************)
Args(op, prompt, cid, delay) ==
    [operation |-> op, prompt |-> prompt, conversation_id |-> cid, delay_ms |-> delay]

NoArgs == Args(Undef, Undef, Undef, Undef)

Request(name, args) == [name |-> name, hasArgs |-> TRUE, args |-> args]

\* delay_ms values of well-formed asks: absent, zero, shorter and longer than
\* the default, negative
Delays == {Undef, Num(0), Num(90000), Num(150000), Num(-30000)}

AskRequests ==
    {Request("chatgpt", Args(Str("ask"), Str("hi"), Undef, d)) : d \in Delays}
    \cup {Request("chatgpt", Args(Str("ask"), Str("say \"hi\""), Str("Trip"), Undef))}

ListRequests ==
    {Request("chatgpt", Args(Str("get_conversations"), Undef, Undef, Undef))}

\* invocations the frontend answers itself
BadRequests ==
    {[name |-> "chatgpt", hasArgs |-> FALSE, args |-> NoArgs],
     Request("search", Args(Str("ask"), Str("hi"), Undef, Undef)),
     Request("chatgpt", NoArgs),
     Request("chatgpt", Args(Str("delete"), Str("hi"), Undef, Undef)),
     Request("chatgpt", Args(Str("ask"), Undef, Undef, Undef)),
     Request("chatgpt", Args(Str("ask"), Str(""), Undef, Num(0))),
     Request("chatgpt", Args(Str("ask"), Num(5), Undef, Undef)),
     Request("chatgpt", Args(Str("ask"), Str("hi"), Num(7), Undef)),
     Request("chatgpt", Args(Str("ask"), Str("hi"), Undef, Str("90000")))}

Requests == AskRequests \cup ListRequests \cup BadRequests

\* characters of the prompts that exercise the keystroke command: a letter
\* that is also an escape letter, the double quote, the backslash
PromptChars == {"n", "\"", "\\"}

RECURSIVE StringsOfLen(_)
StringsOfLen(k) ==
    IF k = 0 THEN {""}
    ELSE {c \o t : c \in PromptChars, t \in StringsOfLen(k - 1)}

\* every non-empty prompt of at most MaxPromptLen of these characters
Prompts == UNION {StringsOfLen(k) : k \in 1..MaxPromptLen}

PromptRequests ==
    {Request("chatgpt", Args(Str("ask"), Str(t), Undef, Undef)) : t \in Prompts}

NoRequest == [name |-> "", hasArgs |-> FALSE, args |-> NoArgs]

\* error texts raised by the scripting bridge
BridgeErrors == {"osascript: execution error (-1728)", "osascript: not allowed (-1743)"}

\* what the existence query of checkChatGPTAccess can produce
ExistsResults == {Returned("true"), Returned("false")} \cup {Raised(e) : e \in BridgeErrors}

\* what the activate script of checkChatGPTAccess can produce
ActivateResults == {Returned("")} \cup {Raised(e) : e \in BridgeErrors}

Gui(kind, activateOk, clickOk, keystrokeOk, readOk, reply, buttonsOk, buttons, err) ==
    [kind |-> kind, activateOk |-> activateOk, clickOk |-> clickOk,
     keystrokeOk |-> keystrokeOk, readOk |-> readOk, reply |-> reply,
     buttonsOk |-> buttonsOk, buttons |-> buttons, err |-> err]

NoGui == Gui("none", TRUE, TRUE, TRUE, TRUE, "", TRUE, <<>>, "")

\* behaviours of the app during the ask script
AskGuis ==
    {Gui("ask", TRUE, TRUE, TRUE, TRUE, rp, TRUE, <<>>, "") : rp \in {"4", ""}}
    \cup {Gui("ask", TRUE, FALSE, TRUE, TRUE, "4", TRUE, <<>>, ""),
          Gui("ask", TRUE, TRUE, TRUE, FALSE, "", TRUE, <<>>, "")}
    \cup {Gui("ask", FALSE, TRUE, TRUE, TRUE, "", TRUE, <<>>, "osascript: execution error (-1728)"),
          Gui("ask", TRUE, TRUE, FALSE, TRUE, "", TRUE, <<>>, "osascript: not allowed (-1743)")}

\* button rows the app can show in the conversation area
ButtonRows ==
    {<<>>, <<NEW_CHAT>>, <<NEW_CHAT, "Trip", "Taxes">>, <<"Trip", NEW_CHAT, "Notes, 2024">>,
     <<"new chat", "Trip">>}

\* behaviours of the app during the list script
ListGuis ==
    {Gui("list", TRUE, TRUE, TRUE, TRUE, "", TRUE, b, "") : b \in ButtonRows}
    \cup {Gui("list", TRUE, TRUE, TRUE, TRUE, "", FALSE, <<>>, "")}
    \cup {Gui("list", FALSE, TRUE, TRUE, TRUE, "", TRUE, <<>>, "osascript: execution error (-1728)")}

(***************************************************************************)
(* Initial state and steps.                                                *)
(***************************************************************************)
vars == <<now, lastRequestTime, pc, req, probe, wait, steps, sent, calls, answers, log>>

\* called: waitForRateLimit was entered; at, last: Date.now() and
\* lastRequestTime as it read them; waitTime: the argument of sleep (0: no
\* sleep); wrote: what the invocation then assigned to lastRequestTime (0:
\* nothing yet)
NoWait == [called |-> FALSE, at |-> 0, last |-> 0, waitTime |-> 0, wrote |-> 0]
NoResp == [isError |-> FALSE, text |-> ""]

\* count: asks dispatched (at most 2 are told apart); time and delay: the
\* latest dispatch; before: lastRequestTime when it was overwritten;
\* custom: some dispatched ask gave a delay_ms; by: the invocation that made
\* the latest dispatch, while its script runs (0 afterwards); failed: the
\* script of the latest dispatch raised
NoLog ==
    [count |-> 0, time |-> 0, delay |-> Undef, before |-> 0, custom |-> FALSE,
     by |-> 0, failed |-> FALSE]

\* the record of an answered invocation: its request, what it went through
\* (probe, wait, steps, gui), what getConversations returned, the envelope
\* line: the keystroke command of the ask script the invocation ran
Answered(r, pr, w, st, g, c, e) ==
    [req |-> r, probe |-> pr, wait |-> w, steps |-> st, gui |-> g,
     convs |-> c, resp |-> e,
     line |-> IF g.kind = "ask" THEN KeystrokeLine(r.args.prompt.s) ELSE ""]

NoSent ==
    [req |-> NoRequest, probe |-> "none", wait |-> NoWait, steps |-> <<>>,
     gui |-> NoGui, convs |-> <<>>, resp |-> NoResp, line |-> ""]

Init ==
    /\ now = StartTime
    /\ lastRequestTime = 0
    /\ pc = [p \in Procs |-> "idle"]
    /\ req = [p \in Procs |-> NoRequest]
    /\ probe = [p \in Procs |-> "none"]
    /\ wait = [p \in Procs |-> NoWait]
    /\ steps = [p \in Procs |-> <<>>]
    /\ sent = NoSent
    /\ calls = 0
    /\ answers = 0
    /\ log = NoLog

\* Some invocation is parked on `await waitForRateLimit(...)` after
\* waitForRateLimit returned without sleeping: its continuation is in the job
\* queue, which is drained before the event loop takes the next message or
\* timer.
JobPending == \E q \in Procs : pc[q] = "waited"

\* The clock advances.  It is observed only through Date.now(), which an
\* invocation calls after the awaits of checkChatGPTAccess and of sleep, so
\* time that passes at other moments is accounted for during those awaits.
Tick ==
    /\ \E p \in Procs : pc[p] \in {"probe", "activate", "sleep"}
    /\ ~JobPending
    /\ \E d \in TickSteps :
        /\ now + d <= MaxTime
        /\ now' = now + d
    /\ UNCHANGED <<lastRequestTime, pc, req, probe, wait, steps, sent, calls, answers, log>>

\* the handler returns envelope e: the invocation is over
Answer(p, pr, g, c, e) ==
    /\ sent' = Answered(req[p], pr, wait[p], steps[p], g, c, e)
    /\ answers' = answers + 1
    /\ pc' = [pc EXCEPT ![p] = "idle"]
    /\ req' = [req EXCEPT ![p] = NoRequest]
    /\ probe' = [probe EXCEPT ![p] = "none"]
    /\ wait' = [wait EXCEPT ![p] = NoWait]
    /\ steps' = [steps EXCEPT ![p] = <<>>]

\* The handler is entered: validation, then either an immediate envelope or
\* the first await of checkChatGPTAccess (the existence query).  At most
\* limit invocations are received.
Accept(p, limit) ==
    /\ pc[p] = "idle"
    /\ ~JobPending
    /\ \A q \in Procs : q < p => pc[q] # "idle"
    /\ calls < limit
    /\ calls' = calls + 1
    /\ \E r \in Requests :
        LET h == HandlerEntry(r) IN
        IF h.route = "reply"
        THEN /\ sent' = Answered(r, "none", NoWait, <<>>, NoGui, <<>>, h.envelope)
             /\ answers' = answers + 1
             /\ UNCHANGED <<pc, req, steps>>
        ELSE /\ pc' = [pc EXCEPT ![p] = "probe"]
             /\ req' = [req EXCEPT ![p] = r]
             /\ steps' = [steps EXCEPT ![p] = <<"probe">>]
             /\ sent' = NoSent
             /\ UNCHANGED answers
    /\ UNCHANGED <<now, lastRequestTime, probe, wait, log>>

Receive(p) == Accept(p, MaxCalls)

\* the handler is entered only when no other invocation is in progress
SerialReceive(p) ==
    /\ \A q \in Procs : pc[q] = "idle"
    /\ Receive(p)

\* variant: the ask script is started without recording the dispatch
Dispatch_NoWrite(p, t) ==
    /\ UNCHANGED lastRequestTime
    /\ log' = [count |-> IF log.count < 2 THEN log.count + 1 ELSE 2,
               time |-> t, delay |-> req[p].args.delay_ms,
               before |-> lastRequestTime,
               custom |-> log.custom \/ req[p].args.delay_ms.type # "undefined",
               by |-> p, failed |-> FALSE]
    /\ pc' = [pc EXCEPT ![p] = "ask"]

\* lastRequestTime = Date.now(), then the ask script is started
Dispatch(p, t) ==
    /\ lastRequestTime' = t
    /\ log' = [count |-> IF log.count < 2 THEN log.count + 1 ELSE 2,
               time |-> t, delay |-> req[p].args.delay_ms,
               before |-> lastRequestTime,
               custom |-> log.custom \/ req[p].args.delay_ms.type # "undefined",
               by |-> p, failed |-> FALSE]
    /\ pc' = [pc EXCEPT ![p] = "ask"]

\* variant: getConversations calls waitForRateLimit too
Throttled_All(r) == TRUE

\* the operations that go through waitForRateLimit and write lastRequestTime
Throttled(r) == r.args.operation.s = "ask"

\* checkChatGPTAccess returned true: askChatGPT goes on to waitForRateLimit,
\* which reads the clock and lastRequestTime and either sleeps or returns;
\* in both cases askChatGPT is parked on its await.  getConversations goes on
\* to its script.
AccessGranted(p) ==
    /\ probe' = [probe EXCEPT ![p] = "ok"]
    /\ IF Throttled(req[p])
       THEN LET d == req[p].args.delay_ms
                w == [called |-> TRUE, at |-> now, last |-> lastRequestTime,
                      waitTime |-> WaitTime(now, lastRequestTime, d),
                      wrote |-> 0]
            IN
            /\ wait' = [wait EXCEPT ![p] = w]
            /\ pc' = [pc EXCEPT ![p] = IF MustWait(now, lastRequestTime, d)
                                       THEN "sleep" ELSE "waited"]
            /\ steps' = [steps EXCEPT ![p] = @ \o <<"wait">>]
            /\ UNCHANGED <<lastRequestTime, log>>
       ELSE /\ pc' = [pc EXCEPT ![p] = "list"]
            /\ steps' = [steps EXCEPT ![p] = @ \o <<"script">>]
            /\ UNCHANGED <<wait, lastRequestTime, log>>
    /\ UNCHANGED <<now, req, sent, calls, answers>>

\* checkChatGPTAccess threw: neither askChatGPT nor getConversations catches
\* it, the handler's catch clause answers
AccessDenied(p, how, msg) ==
    /\ Answer(p, how, NoGui, <<>>, ErrorEnvelope(AccessErrorMessage(msg)))
    /\ UNCHANGED <<now, lastRequestTime, calls, log>>

\* the existence query of checkChatGPTAccess returns or raises
ProbeReturns(p) ==
    /\ pc[p] = "probe"
    /\ \E out \in ExistsResults :
        IF out.raised THEN AccessDenied(p, "queryFailed", out.value)
        ELSE IF out.value # "true"
        THEN /\ pc' = [pc EXCEPT ![p] = "activate"]
             /\ UNCHANGED <<now, lastRequestTime, req, probe, wait, steps, sent, calls,
                            answers, log>>
        ELSE AccessGranted(p)

\* variant: after a successful activate the existence query is run again
ActivateReturns_Loop(p) ==
    /\ pc[p] = "activate"
    /\ \E out \in ActivateResults :
        IF out.raised THEN AccessDenied(p, "activateFailed", ActivateErrorMessage)
        ELSE /\ pc' = [pc EXCEPT ![p] = "probe"]
             /\ UNCHANGED <<now, lastRequestTime, req, probe, wait, steps, sent, calls,
                            answers, log>>

\* the activate script of checkChatGPTAccess returns or raises
ActivateReturns(p) ==
    /\ pc[p] = "activate"
    /\ \E out \in ActivateResults :
        IF out.raised THEN AccessDenied(p, "activateFailed", ActivateErrorMessage)
        ELSE AccessGranted(p)

\* `await waitForRateLimit(...)` resumes after a waitForRateLimit that did
\* not sleep: lastRequestTime = Date.now(), then the ask script is started
WaitReturns(p) ==
    /\ pc[p] = "waited"
    /\ wait' = [wait EXCEPT ![p].wrote = now]
    /\ Dispatch(p, now)
    /\ steps' = [steps EXCEPT ![p] = @ \o <<"write", "script">>]
    /\ UNCHANGED <<now, req, probe, sent, calls, answers>>

\* sleep(waitTime) ends, not before waitTime has passed
WakeUp(p) ==
    /\ pc[p] = "sleep"
    /\ ~JobPending
    /\ LET t == IF now >= wait[p].at + wait[p].waitTime THEN now
                ELSE wait[p].at + wait[p].waitTime
       IN
       /\ now' = t
       /\ wait' = [wait EXCEPT ![p].wrote = t]
       /\ Dispatch(p, t)
    /\ steps' = [steps EXCEPT ![p] = @ \o <<"write", "script">>]
    /\ UNCHANGED <<req, probe, sent, calls, answers>>

\* variant: the catch block of askChatGPT puts lastRequestTime back to what
\* it was before the dispatch
AskReturns_ReleaseOnFailure(p) ==
    /\ pc[p] = "ask"
    /\ \E g \in AskGuis :
        LET out == RunAskScript(req[p].args.conversation_id, g) IN
        /\ Answer(p, probe[p], g, <<>>, AskResult(out))
        /\ log' = IF log.by = p
                  THEN [log EXCEPT !.failed = out.raised, !.by = 0]
                  ELSE log
        /\ lastRequestTime' = IF out.raised THEN wait[p].last ELSE lastRequestTime
    /\ UNCHANGED <<now, calls>>

\* variant: an ask script that raised is run once more
AskReturns_Retry(p) ==
    /\ pc[p] = "ask"
    /\ \E g \in AskGuis :
        LET out == RunAskScript(req[p].args.conversation_id, g) IN
        IF out.raised /\ Len(steps[p]) < 5
        THEN /\ steps' = [steps EXCEPT ![p] = Append(@, "script")]
             /\ UNCHANGED <<now, lastRequestTime, pc, req, probe, wait, sent, calls,
                            answers, log>>
        ELSE /\ Answer(p, probe[p], g, <<>>, AskResult(out))
             /\ log' = IF log.by = p
                       THEN [log EXCEPT !.failed = out.raised, !.by = 0]
                       ELSE log
             /\ UNCHANGED <<now, lastRequestTime, calls>>

\* the ask script returns or raises; the handler answers
AskReturns(p) ==
    /\ pc[p] = "ask"
    /\ \E g \in AskGuis :
        LET out == RunAskScript(req[p].args.conversation_id, g) IN
        /\ Answer(p, probe[p], g, <<>>, AskResult(out))
        /\ log' = IF log.by = p
                  THEN [log EXCEPT !.failed = out.raised, !.by = 0]
                  ELSE log
    /\ UNCHANGED <<now, lastRequestTime, calls>>

\* the list script returns or raises; the handler answers
ListReturns(p) ==
    /\ pc[p] = "list"
    /\ \E g \in ListGuis :
        LET c == Conversations(RunListScript(g)) IN
        Answer(p, probe[p], g, c, ListEnvelope(c))
    /\ UNCHANGED <<now, lastRequestTime, calls, log>>

\* the steps of an invocation that is under way
Step(p) ==
    \/ ProbeReturns(p)
    \/ ActivateReturns(p)
    \/ WaitReturns(p)
    \/ WakeUp(p)
    \/ AskReturns(p)
    \/ ListReturns(p)

\* invocations may overlap: the handler is async and parks on its awaits
Next ==
    \/ Tick
    \/ \E p \in Procs : Receive(p)
    \/ \E p \in Procs : Step(p)

Spec == Init /\ [][Next]_vars

\* invocations are handled one at a time
SerialNext ==
    \/ Tick
    \/ \E p \in Procs : SerialReceive(p)
    \/ \E p \in Procs : Step(p)

SerialSpec == Init /\ [][SerialNext]_vars

\* Every call to the scripting bridge returns or raises and every sleep ends:
\* an invocation that is under way takes its next step.
LiveSpec == Spec /\ \A p \in Procs : WF_vars(Step(p))

\* The server after a first ask {prompt: "hi"} that was dispatched at
\* StartTime and answered: MaxCalls further invocations arrive, overlapping
\* as in Spec.
FirstAsk == Request("chatgpt", Args(Str("ask"), Str("hi"), Undef, Undef))

FirstGui == Gui("ask", TRUE, TRUE, TRUE, TRUE, "4", TRUE, <<>>, "")

OverlapInit ==
    /\ now = StartTime
    /\ lastRequestTime = StartTime
    /\ pc = [p \in Procs |-> "idle"]
    /\ req = [p \in Procs |-> NoRequest]
    /\ probe = [p \in Procs |-> "none"]
    /\ wait = [p \in Procs |-> NoWait]
    /\ steps = [p \in Procs |-> <<>>]
    /\ sent = Answered(FirstAsk, "ok",
                       [called |-> TRUE, at |-> StartTime, last |-> 0, waitTime |-> 0,
                        wrote |-> StartTime],
                       <<"probe", "wait", "write", "script">>, FirstGui, <<>>,
                       AskResult(RunAskScript(Undef, FirstGui)))
    /\ calls = 1
    /\ answers = 1
    /\ log = [count |-> 1, time |-> StartTime, delay |-> Undef, before |-> 0,
              custom |-> FALSE, by |-> 0, failed |-> FALSE]

OverlapReceive(p) == Accept(p, MaxCalls + 1)

OverlapNext ==
    \/ Tick
    \/ \E p \in Procs : OverlapReceive(p)
    \/ \E p \in Procs : Step(p)

OverlapSpec == OverlapInit /\ [][OverlapNext]_vars

\* One ask whose prompt is any of Prompts, from the moment the handler has
\* called askChatGPT until its envelope is returned.
PromptInit ==
    /\ now = StartTime
    /\ lastRequestTime = 0
    /\ \E r \in PromptRequests :
        req = [p \in Procs |-> IF p = 1 THEN r ELSE NoRequest]
    /\ pc = [p \in Procs |-> IF p = 1 THEN "probe" ELSE "idle"]
    /\ probe = [p \in Procs |-> "none"]
    /\ wait = [p \in Procs |-> NoWait]
    /\ steps = [p \in Procs |-> IF p = 1 THEN <<"probe">> ELSE <<>>]
    /\ sent = NoSent
    /\ calls = 1
    /\ answers = 0
    /\ log = NoLog

PromptNext ==
    \/ Tick
    \/ ProbeReturns(1)
    \/ ActivateReturns(1)
    \/ WaitReturns(1)
    \/ AskReturns(1)

PromptSpec == PromptInit /\ [][PromptNext]_vars

(***************************************************************************)
(* Properties.                                                             *)
(***************************************************************************)
\* invocation p has gone through waitForRateLimit and is not answered yet
Waited(p) == wait[p].called

\* what p's waitForRateLimit saw: time since the last dispatch
Elapsed(p) == wait[p].at - wait[p].last

\* p's waitForRateLimit ran after some ask had been dispatched
AfterDispatch(p) == wait[p].last # 0

\* C1: an ask with delay_ms = 0 issued less than 120000 ms after the prior
\* dispatch is suspended for 0 ms.
C1_ZeroDelayNoWait ==
    \A p \in Procs :
        (Waited(p) /\ req[p].args.delay_ms = Num(0) /\ AfterDispatch(p)
            /\ Elapsed(p) < 120000)
        => (wait[p].waitTime = 0 /\ pc[p] # "sleep")

\* the interval as the claims state it: the override when one is given,
\* 120000 otherwise
StatedInterval(delay) == IF delay.type = "number" THEN delay.n ELSE 120000

\* the wait as the claims state it
StatedWait(elapsed, interval) == IF elapsed < interval THEN interval - elapsed ELSE 0

\* C2: every call of the rate limiter suspends the caller for exactly
\* interval - elapsed when elapsed < interval and for 0 otherwise, interval
\* being the custom interval if one is given and 120000 otherwise.
C2_WaitIsIntervalMinusElapsed ==
    \A p \in Procs :
        Waited(p)
        => wait[p].waitTime = StatedWait(Elapsed(p), StatedInterval(req[p].args.delay_ms))

\* C3: with invocations handled one at a time, two consecutive dispatches
\* are at least the later one's interval apart (its delay_ms if given,
\* otherwise 120000).
C3_DispatchesSpaced ==
    log.count >= 2 => log.time - log.before >= StatedInterval(log.delay)

\* two dispatches exactly one custom interval apart
C3_Witness ==
    /\ log.count >= 2
    /\ log.delay = Num(90000)
    /\ log.time - log.before = 90000

\* an ask whose prompt is empty or missing
PromptlessAsk(r) ==
    /\ r.hasArgs
    /\ r.args.operation = Str("ask")
    /\ r.args.prompt \in {Undef, Str("")}

\* C4: an ask with an empty or missing prompt is answered with an error
\* envelope and without dispatch: no probe, no wait, no write of
\* lastRequestTime, no script.
C4_PromptlessAskRejected ==
    /\ \A p \in Procs : ~PromptlessAsk(req[p])
    /\ PromptlessAsk(sent.req) => (sent.resp.isError /\ sent.steps = <<>>)

\* an ask with an empty prompt has been answered after an earlier dispatch
C4_Witness ==
    /\ PromptlessAsk(sent.req)
    /\ sent.req.name = "chatgpt"
    /\ sent.req.args.prompt = Str("")
    /\ log.count >= 1
    /\ lastRequestTime = log.time

\* the answered invocation was an ask / a listing that reached the prober
ProbedAsk == sent.steps # <<>> /\ sent.req.args.operation = Str("ask")
ProbedList == sent.steps # <<>> /\ sent.req.args.operation = Str("get_conversations")

\* checkChatGPTAccess threw in the answered invocation
ProbeFailed == sent.probe \in {"queryFailed", "activateFailed"}

\* C5 as stated: when the prober fails during an ask, the envelope is an
\* error whose text contains "Failed to get response from ChatGPT".
C5_Original ==
    (ProbedAsk /\ ProbeFailed)
    => (sent.resp.isError
        /\ Includes(sent.resp.text, "Failed to get response from ChatGPT"))

\* C5 amended: when the prober fails during an ask, the envelope is an error
\* whose text starts with "Error: Cannot access ChatGPT app." and does not
\* contain "Failed to get response from ChatGPT"; no wait, write or script
\* takes place.
C5_ProbeFailureInAsk ==
    (ProbedAsk /\ ProbeFailed)
    => /\ sent.resp.isError
       /\ StartsWith(sent.resp.text, "Error: Cannot access ChatGPT app.")
       /\ ~Includes(sent.resp.text, "Failed to get response from ChatGPT")
       /\ sent.steps = <<"probe">>

\* an ask answered after the existence query raised
C5_Witness ==
    /\ ProbedAsk
    /\ sent.probe = "queryFailed"
    /\ Includes(sent.resp.text, "osascript: not allowed (-1743)")

\* C6 as stated: when the prober fails during get_conversations, the
\* response is a success envelope listing exactly "Error retrieving
\* conversations".
C6_Original ==
    (ProbedList /\ ProbeFailed)
    => (~sent.resp.isError /\ sent.convs = <<"Error retrieving conversations">>)

\* C6 amended: when the prober fails during get_conversations, the response
\* is an error envelope whose text starts with "Error: Cannot access ChatGPT
\* app."; getConversations returns no list and the list script is not run.
C6_ProbeFailureInList ==
    (ProbedList /\ ProbeFailed)
    => /\ sent.resp.isError
       /\ StartsWith(sent.resp.text, "Error: Cannot access ChatGPT app.")
       /\ sent.convs = <<>>
       /\ sent.steps = <<"probe">>

\* a listing answered after the activation raised
C6_Witness ==
    /\ ProbedList
    /\ sent.probe = "activateFailed"
    /\ Includes(sent.resp.text, "Could not activate ChatGPT app.")

\* the script of the answered invocation raised (activate or keystroke)
AskScriptRaised ==
    sent.gui.kind = "ask" /\ (~sent.gui.activateOk \/ ~sent.gui.keystrokeOk)
ListScriptRaised == sent.gui.kind = "list" /\ ~sent.gui.activateOk

\* C7: when the script raises after the prober succeeded, ask answers with
\* an error envelope carrying the underlying message, get_conversations
\* with a success envelope for the one-element list "Error retrieving
\* conversations".
C7_AdapterFailureAsymmetry ==
    /\ AskScriptRaised
       => /\ sent.probe = "ok"
          /\ sent.resp.isError
          /\ Includes(sent.resp.text, sent.gui.err)
    /\ ListScriptRaised
       => /\ sent.probe = "ok"
          /\ ~sent.resp.isError
          /\ sent.convs = <<"Error retrieving conversations">>

\* a listing whose script raised has been answered
C7_Witness ==
    /\ ListScriptRaised
    /\ sent.resp.text = "Found 1 conversation(s):\n\nError retrieving conversations"

\* C8: when everything up to submitting the prompt succeeds and reading the
\* reply fails, the ask answers with a success envelope whose text is
\* exactly "Could not retrieve the response from ChatGPT.".
C8_ReadFailureFallback ==
    (sent.gui.kind = "ask" /\ sent.gui.activateOk /\ sent.gui.keystrokeOk
        /\ ~sent.gui.readOk)
    => /\ ~sent.resp.isError
       /\ sent.resp.text = "Could not retrieve the response from ChatGPT."

\* an ask whose reply could not be read has been answered
C8_Witness ==
    /\ sent.gui.kind = "ask"
    /\ sent.gui.activateOk /\ sent.gui.keystrokeOk /\ ~sent.gui.readOk
    /\ sent.steps = <<"probe", "wait", "write", "script">>

\* the tool name of the answered invocation is not "chatgpt" (arguments given)
UnknownTool == sent.req.hasArgs /\ sent.req.name # "chatgpt"

\* the answered invocation failed: missing or invalid arguments, unknown
\* tool, prober failure, or script failure in an ask
Failing ==
    /\ sent # NoSent
    /\ \/ ~sent.req.hasArgs
       \/ UnknownTool
       \/ ~isChatGPTArgs(sent.req.args)
       \/ ProbeFailed
       \/ AskScriptRaised

\* C9 as stated: every failing invocation is answered with isError = true
\* and a text of the form "Error: <message>".
C9_Original ==
    Failing => (sent.resp.isError /\ StartsWith(sent.resp.text, "Error: "))

\* C9 amended: every failing invocation is answered with isError = true; the
\* text is "Unknown tool: <name>" for an unknown tool name given with
\* arguments, and "Error: <message>" with a non-empty message for every
\* other failure.
C9_FailuresAnswered ==
    Failing
    => /\ sent.resp.isError
       /\ IF UnknownTool
          THEN sent.resp.text = "Unknown tool: " \o sent.req.name
          ELSE /\ StartsWith(sent.resp.text, "Error: ")
               /\ Len(sent.resp.text) > Len("Error: ")

\* an invocation naming another tool has been answered
C9_Witness ==
    /\ UnknownTool
    /\ sent.resp = [isError |-> TRUE, text |-> "Unknown tool: search"]

\* C10: after asks with delay_ms overrides, an ask with no override is
\* throttled with the default interval of 120000 ms.
C10_OverrideNotSticky ==
    \A p \in Procs :
        (Waited(p) /\ req[p].args.delay_ms = Undef)
        => wait[p].waitTime = StatedWait(Elapsed(p), 120000)

\* an ask without override waits after an ask with an override of 90000 was
\* dispatched
C10_Witness ==
    \E p \in Procs :
        /\ pc[p] = "sleep"
        /\ req[p].args.delay_ms = Undef
        /\ log.custom /\ log.delay = Num(90000)
        /\ wait[p].last = log.time
        /\ wait[p].waitTime = 120000 - Elapsed(p)
(***************************************************************************)
(* getConversations: the list it returns.                                  *)
(***************************************************************************)
\* the list script ran and read the button row of the conversation area
ListScriptRead ==
    /\ ProbedList
    /\ sent.gui.kind = "list"
    /\ sent.gui.activateOk
    /\ sent.gui.buttonsOk

\* the names of a button row that differ from "New chat", in order, as the
\* contract of listConversations states them
RECURSIVE StatedNames(_)
StatedNames(buttons) ==
    IF Len(buttons) = 0 THEN <<>>
    ELSE IF Head(buttons) = "New chat" THEN StatedNames(Tail(buttons))
    ELSE <<Head(buttons)>> \o StatedNames(Tail(buttons))

\* C11: for any button row the list script reads, getConversations returns
\* exactly the names other than "New chat", in order, one entry per button.
C11_ListIsFilteredRow ==
    ListScriptRead => sent.convs = StatedNames(sent.gui.buttons)

\* C12: when the button row holds no conversation (it is empty or holds only
\* "New chat"), getConversations returns the empty list and the envelope
\* says that no conversations were found.
C12_EmptyRowReportsNone ==
    (ListScriptRead /\ StatedNames(sent.gui.buttons) = <<>>) =>
        /\ sent.convs = <<>>
        /\ sent.resp = [isError |-> FALSE, text |-> "No conversations found in ChatGPT."]

(***************************************************************************)
(* askChatGPT: the prompt inside the keystroke command.                    *)
(***************************************************************************)
\* the ask script of the invocation answered last was handed to the bridge
AskScriptRan == sent.gui.kind = "ask"

\* C13: for every prompt, the string literal of the keystroke command is
\* closed by the quote that ends the command and by no quote before it, and
\* the text it stands for, which the script types, is exactly the prompt.
C13_PromptTypedExactly ==
    AskScriptRan =>
        LET lit == KeystrokeLiteral(sent.line) IN
        /\ lit.closed
        /\ lit.end = Len(sent.line)
        /\ lit.text = sent.req.args.prompt.s

(***************************************************************************)
(* askChatGPT: probe, wait, write, script.                                 *)
(***************************************************************************)
AskOrder == <<"probe", "wait", "write", "script">>

\* invocation p starts its ask script in this step
StartsScript(p) == pc[p] # "ask" /\ pc'[p] = "ask"

\* the ask script of invocation p ends in this step, returning or raising
ScriptEnds(p) == pc[p] = "ask" /\ pc'[p] # "ask"

\* one step of the program keeps the order of an ask
AskOrderStep ==
    /\ \A p \in Procs :
        StartsScript(p) =>
            /\ probe'[p] = "ok"
            /\ wait'[p].called
            /\ now' >= wait'[p].at + wait'[p].waitTime
            /\ lastRequestTime' = now'
            /\ wait'[p].wrote = now'
            /\ steps'[p] = AskOrder
    /\ \A p \in Procs :
        ScriptEnds(p) =>
            /\ lastRequestTime' = lastRequestTime
            /\ sent'.steps = AskOrder
            /\ sent'.wait.wrote = wait[p].wrote
    /\ (\A p \in Procs : ~StartsScript(p)) => lastRequestTime' = lastRequestTime

\* C14: an ask that reaches its script has probed, then waited, then written
\* lastRequestTime, then started the script; the write happens in the step
\* that starts the script, after the sleep is over, with the time of that
\* step; no other step writes lastRequestTime, the end of the script
\* included.
C14_ProbeWaitWriteScript == [][AskOrderStep]_vars

\* an ask that had to sleep was dispatched and its script has ended
C14_Witness ==
    /\ AskScriptRan
    /\ sent.wait.waitTime > 0
    /\ sent.steps = AskOrder
    /\ sent.wait.wrote = sent.wait.at + sent.wait.waitTime
    /\ lastRequestTime = sent.wait.wrote

(***************************************************************************)
(* Invocations that stay clear of the rate limiter.                        *)
(***************************************************************************)
\* invocation p, a get_conversations, takes a step
ListStep(p) ==
    /\ req[p].args.operation = Str("get_conversations")
    /\ pc'[p] # pc[p]

\* the probe of invocation p, an ask, fails in this step
AskProbeFails(p) ==
    /\ req[p].args.operation = Str("ask")
    /\ pc[p] \in {"probe", "activate"}
    /\ pc'[p] = "idle"

UnthrottledStep ==
    /\ \A p \in Procs :
        ListStep(p) =>
            /\ lastRequestTime' = lastRequestTime
            /\ pc'[p] \notin {"sleep", "waited", "ask"}
            /\ wait'[p] = NoWait
            /\ pc'[p] = "idle" =>
                /\ sent'.wait = NoWait
                /\ sent'.steps \in {<<"probe">>, <<"probe", "script">>}
    /\ \A p \in Procs :
        AskProbeFails(p) =>
            /\ lastRequestTime' = lastRequestTime
            /\ sent'.wait = NoWait
            /\ sent'.steps = <<"probe">>

\* C15: no step of a get_conversations invocation enters waitForRateLimit,
\* sleeps or writes lastRequestTime, whatever its outcome; the step in which
\* the probe of an ask fails leaves lastRequestTime as it was, and that ask
\* has not entered waitForRateLimit.
C15_ListAndDeniedAskUnthrottled == [][UnthrottledStep]_vars

\* a get_conversations was answered less than the default interval after a
\* dispatch, without a wait and with lastRequestTime still that dispatch
C15_Witness ==
    /\ ProbedList
    /\ sent.gui.kind = "list"
    /\ log.count > 0
    /\ lastRequestTime = log.time
    /\ now - lastRequestTime < RATE_LIMIT_DELAY
    /\ sent.wait = NoWait

(***************************************************************************)
(* Overlapping invocations.                                                *)
(***************************************************************************)
InProgress == {p \in Procs : pc[p] # "idle"}

\* asks that have read lastRequestTime and not yet written it
BetweenReadAndWrite == {p \in Procs : pc[p] \in {"sleep", "waited"}}

OneAtATime == Cardinality(InProgress) <= 1

NoInterleavedRead == Cardinality(BetweenReadAndWrite) <= 1

NeverCloserThanInterval ==
    log.count >= 2 => log.time - log.before >= StatedInterval(log.delay)

\* C16: at most one invocation is in progress at any time, so no ask reads
\* lastRequestTime while another ask is between its read and its write, and
\* two consecutive dispatches are never closer than the later one's interval.
C16_OneInvocationAtATime ==
    /\ OneAtATime
    /\ NoInterleavedRead
    /\ NeverCloserThanInterval

(***************************************************************************)
(* Negative delay_ms.                                                      *)
(***************************************************************************)
\* invocation p is an ask that got past the frontend with a negative delay_ms
NegativeDelay(p) ==
    /\ req[p].args.operation = Str("ask")
    /\ req[p].args.delay_ms.type = "number"
    /\ req[p].args.delay_ms.n < 0

\* C17: no ask with a negative delay_ms gets past the frontend to
\* waitForRateLimit, so none is dispatched without a sleep while less than
\* 120000 ms have passed since the previous dispatch.
C17_NegativeDelayRejected ==
    \A p \in Procs :
        /\ ~(NegativeDelay(p) /\ Waited(p))
        /\ (NegativeDelay(p) /\ Waited(p) /\ AfterDispatch(p) /\ Elapsed(p) < 120000)
           => wait[p].waitTime > 0

(***************************************************************************)
(* No retries.                                                             *)
(***************************************************************************)
\* how often x occurs in a sequence
RECURSIVE Count(_, _)
Count(seq, x) ==
    IF Len(seq) = 0 THEN 0
    ELSE (IF Head(seq) = x THEN 1 ELSE 0) + Count(Tail(seq), x)

\* the calls of one invocation hold at most one probe and at most one script
AtMostOnce(st) == Count(st, "probe") <= 1 /\ Count(st, "script") <= 1

NoRetryStep ==
    /\ AtMostOnce(sent'.steps)
    /\ \A p \in Procs :
        /\ AtMostOnce(steps'[p])
        /\ pc[p] \in {"activate", "sleep", "waited", "ask", "list"} => pc'[p] # "probe"
        /\ pc[p] \in {"ask", "list"} => pc'[p] \in {pc[p], "idle"}
        /\ (pc[p] \in {"ask", "list"} /\ steps'[p] # steps[p]) => pc'[p] = "idle"

\* C18: within one invocation checkChatGPTAccess is called at most once and
\* the ask or list script is run at most once: once a script has returned or
\* raised, the next step of the invocation is its answer, and no step goes
\* back to the probe.
C18_NothingRetried == [][NoRetryStep]_vars

\* an ask whose script raised was answered after one probe and one script
C18_Witness ==
    /\ AskScriptRaised
    /\ sent.resp.isError
    /\ Count(sent.steps, "probe") = 1
    /\ Count(sent.steps, "script") = 1

(***************************************************************************)
(* Every invocation is answered.                                           *)
(***************************************************************************)
\* one envelope for every invocation that is no longer in progress
OneEnvelopeEach == answers + Cardinality(InProgress) = calls

\* C19: every invocation that is under way eventually ends, and the number
\* of response envelopes returned is always the number of invocations that
\* have ended: one each, success or error.
C19_EveryInvocationAnswered ==
    /\ []OneEnvelopeEach
    /\ \A p \in Procs : (pc[p] # "idle") ~> (pc[p] = "idle")

\* all invocations were answered, the last one an ask that had to sleep
C19_Witness ==
    /\ calls = MaxCalls
    /\ answers = MaxCalls
    /\ InProgress = {}
    /\ AskScriptRan
    /\ sent.wait.waitTime > 0

(***************************************************************************)
(* A failed dispatch and the next ask.                                     *)
(***************************************************************************)
\* invocation p, an ask with the default interval, sleeps in waitForRateLimit
\* and the script of the latest dispatch raised
SleepsAfterFailedDispatch(p) ==
    /\ pc[p] = "sleep"
    /\ req[p].args.delay_ms = Undef
    /\ log.failed

\* C20: with invocations handled one at a time, when the script of an ask
\* raises, lastRequestTime keeps the time written for that dispatch, and a
\* following ask with the default interval that has to sleep sleeps until
\* 120000 ms after that time.
C20_FailedDispatchKeepsSlot ==
    /\ (AskScriptRan /\ sent.resp.isError /\ InProgress = {})
       => lastRequestTime = sent.wait.wrote
    /\ \A p \in Procs :
        SleepsAfterFailedDispatch(p) =>
            /\ wait[p].last = log.time
            /\ wait[p].at + wait[p].waitTime = log.time + 120000

\* an ask with the default interval sleeps out the rest of the 120000 ms
\* that began with a dispatch whose script raised
C20_Witness ==
    \E p \in Procs :
        /\ SleepsAfterFailedDispatch(p)
        /\ wait[p].at > log.time
        /\ wait[p].waitTime = 120000 - (wait[p].at - log.time)

====
